---- MODULE Spec2Model ----
(***************************************************************************)
(* A model of src/raw/object.rs: the statement interpreter parse_obj and   *)
(* the range-tracking GroupBuilder / Group it drives.                      *)
(*                                                                         *)
(* Text is modelled as sequences of one-character strings, so that         *)
(* split('/') and the numeric parses are computed, not assumed.            *)
(* Option<T> is modelled as a sequence of length 0 (None) or 1 (Some).     *)
(* A map (HashMap / VecMap) is a function whose DOMAIN is its key set.     *)
(***************************************************************************)
EXTENDS Integers, Sequences, FiniteSets, TLC

VARIABLES
    name,                 \* Option<String>
    material_libraries,   \* Vec<String>
    positions,            \* Vec<f32x4>
    tex_coords,           \* Vec<f32x4>
    normals,              \* Vec<f32x4>
    param_vertices,       \* Vec<f32x4>
    polygons,             \* Vec<Polygon>
    group_builder,        \* GroupBuilder<HashMap<String, Group>, String>
    mesh_builder,         \* GroupBuilder<HashMap<String, Group>, String>
    smoothing_builder,    \* GroupBuilder<VecMap<Group>, usize>
    merging_builder,      \* GroupBuilder<VecMap<Group>, usize>
    outcome,              \* "running", "Ok", an error kind, or a panic
    consumed,             \* the statements lex has delivered so far
    input                 \* the class of input stream being parsed

vars == << name, material_libraries, positions, tex_coords, normals,
           param_vertices, polygons, group_builder, mesh_builder,
           smoothing_builder, merging_builder, outcome, consumed, input >>

(***************************************************************************)
(* Bounds of the model.                                                    *)
(***************************************************************************)
\* Longest statement stream drawn from the full lexicon.
MaxStmts == 2
\* Longest statement stream drawn from one grouping keyword plus `f`.
MaxGroupStmts == 6
\* Width of usize in the model.
UsizeBits == 6

UsizeMax == 2^UsizeBits - 1

\* const UNDEFINED: usize = ::std::usize::MAX
UNDEFINED == UsizeMax

None == << >>
Some(x) == << x >>

(***************************************************************************)
(* Text.                                                                   *)
(***************************************************************************)
Digits == {"0", "1", "2", "3", "4", "5", "6", "7", "8", "9"}

DigitVal(c) ==
    CASE c = "0" -> 0 [] c = "1" -> 1 [] c = "2" -> 2 [] c = "3" -> 3
      [] c = "4" -> 4 [] c = "5" -> 5 [] c = "6" -> 6 [] c = "7" -> 7
      [] c = "8" -> 8 [] c = "9" -> 9

\* The value of a digit string read left to right, or -1 once it exceeds max.
RECURSIVE FoldDigits(_, _, _)
FoldDigits(s, acc, max) ==
    IF s = << >> THEN acc
    ELSE LET v == acc * 10 + DigitVal(Head(s))
         IN  IF v > max THEN -1 ELSE FoldDigits(Tail(s), v, max)

\* n!: str::parse::<usize>(): None on an empty string, a non-digit or overflow.
ParseUsize(s) ==
    IF s = << >> \/ \E i \in 1..Len(s) : s[i] \notin Digits THEN None
    ELSE LET v == FoldDigits(s, 0, UsizeMax)
         IN  IF v < 0 THEN None ELSE Some(v)

\* f!: str::parse::<f32>() on the unsigned decimal integers of the lexicon;
\* every other token of the lexicon is not a number.
ParseF32(s) ==
    IF s = << >> \/ \E i \in 1..Len(s) : s[i] \notin Digits THEN None
    ELSE Some(FoldDigits(s, 0, 10 * UsizeMax))

\* f!(args): parses every argument in order; None at the first failure.
ParseAllF32(args) ==
    IF \E i \in 1..Len(args) : ParseF32(args[i]) = None THEN None
    ELSE Some([i \in 1..Len(args) |-> ParseF32(args[i])[1]])

\* s!: param.split('/'): the fields between slashes, at least one.
RECURSIVE Split(_)
Split(s) ==
    IF s = << >> THEN << << >> >>
    ELSE LET rest == Split(Tail(s))
         IN  IF Head(s) = "/" THEN << << >> >> \o rest
             ELSE << << Head(s) >> \o Head(rest) >> \o Tail(rest)

\* args.connect(" ")
RECURSIVE Connect(_)
Connect(args) ==
    IF Len(args) = 1 THEN args[1]
    ELSE args[1] \o << " " >> \o Connect(Tail(args))

\* concatenation of a sequence of sequences (push_all)
PushAll(vec, items) == vec \o items

(***************************************************************************)
(* Element lists that parse_obj never grows, and the Counter.               *)
(***************************************************************************)
\* let points = Vec::new(); (never pushed to)
points == << >>
\* let lines = Vec::new(); (never pushed to)
lines == << >>

\* Counter::get answering with the lengths at construction.
Counter_get_Stale(polys) == << 0, 0, 0 >>

\* Counter::get: the current lengths, read through the stored pointers.
Counter_get(polys) == << Len(points), Len(lines), Len(polys) >>

(***************************************************************************)
(* Range and Group.                                                        *)
(***************************************************************************)
Range(s, e) == [start |-> s, end |-> e]

\* Group::start: opens one Range per element kind.
Group_start(g, count) ==
    [points   |-> Append(g.points,   Range(count[1], UNDEFINED)),
     lines    |-> Append(g.lines,    Range(count[2], UNDEFINED)),
     polygons |-> Append(g.polygons, Range(count[3], UNDEFINED))]

\* Group::new
Group_new(count) ==
    Group_start([points |-> << >>, lines |-> << >>, polygons |-> << >>], count)

\* Range_end without the pop of a Range to which nothing was added.
Range_end_KeepsEmpty(vec, end) ==
    IF Len(vec) = 0 THEN [panic |-> TRUE, vec |-> vec]
    ELSE IF vec[Len(vec)].end # UNDEFINED THEN [panic |-> TRUE, vec |-> vec]
    ELSE [panic |-> FALSE, vec |-> [vec EXCEPT ![Len(vec)].end = end]]

\* Range_end closing the Range one past the count it is given.
Range_end_OnePast(vec, end) ==
    IF Len(vec) = 0 THEN [panic |-> TRUE, vec |-> vec]
    ELSE LET last == Len(vec)
         IN  IF vec[last].end # UNDEFINED THEN [panic |-> TRUE, vec |-> vec]
             ELSE IF vec[last].start # end
                  THEN [panic |-> FALSE,
                        vec   |-> [vec EXCEPT ![last].end = end + 1]]
                  ELSE [panic |-> FALSE, vec |-> SubSeq(vec, 1, last - 1)]

\* fn end(vec, end) inside Group::end: closes the last Range, or pops it when
\* nothing was added since it was opened. `vec.len() - 1` on an empty vec and
\* the assert_eq! on a closed last Range both panic.
Range_end(vec, end) ==
    IF Len(vec) = 0 THEN [panic |-> TRUE, vec |-> vec]
    ELSE LET last == Len(vec)
         IN  IF vec[last].end # UNDEFINED THEN [panic |-> TRUE, vec |-> vec]
             ELSE IF vec[last].start # end
                  THEN [panic |-> FALSE,
                        vec   |-> [vec EXCEPT ![last].end = end]]
                  ELSE [panic |-> FALSE, vec |-> SubSeq(vec, 1, last - 1)]

\* Group::end: closes the three kinds in order; `empty` is its return value.
Group_end(g, count) ==
    LET p == Range_end(g.points, count[1])
        l == Range_end(g.lines, count[2])
        y == Range_end(g.polygons, count[3])
    IN  [panic |-> p.panic \/ l.panic \/ y.panic,
         group |-> [points |-> p.vec, lines |-> l.vec, polygons |-> y.vec],
         empty |-> p.vec = << >> /\ l.vec = << >> /\ y.vec = << >>]

(***************************************************************************)
(* Map<K, Group> and GroupBuilder.                                         *)
(***************************************************************************)
EmptyMap == << >>

Map_insert(m, k, v) == [x \in DOMAIN m \cup {k} |-> IF x = k THEN v ELSE m[x]]

Map_remove(m, k) == [x \in DOMAIN m \ {k} |-> m[x]]

\* Counter::hash_map naming the default key active without inserting its Group.
Counter_hash_map_Absent(key) == [current |-> Some(key), result |-> EmptyMap]

\* Counter::hash_map: the default key is present and active from the start.
Counter_hash_map(key) ==
    [current |-> Some(key),
     result  |-> Map_insert(EmptyMap, key, Group_new(<< 0, 0, 0 >>))]

\* Counter::vec_map: nothing is active and the table is empty.
Counter_vec_map == [current |-> None, result |-> EmptyMap]

\* `if self.result[*current].end(count) { remove; assert!(is_some) }`, shared
\* by GroupBuilder::start and GroupBuilder::end. Indexing a missing key panics.
CloseCurrent(result, current, count) ==
    IF current \notin DOMAIN result THEN [panic |-> TRUE, result |-> result]
    ELSE LET e == Group_end(result[current], count)
         IN  IF e.panic THEN [panic |-> TRUE, result |-> result]
             ELSE IF e.empty
                  THEN [panic |-> FALSE, result |-> Map_remove(result, current)]
                  ELSE [panic  |-> FALSE,
                        result |-> [result EXCEPT ![current] = e.group]]

\* OpenKey that resumes a polygon Range ending where the new one would start.
OpenKey_Coalesces(result, key, count) ==
    IF key \in DOMAIN result
    THEN LET g == result[key]
             n == Len(g.polygons)
         IN  IF n > 0 /\ g.polygons[n].end = count[3]
             THEN [result EXCEPT ![key] =
                     [Group_start(g, count) EXCEPT
                        !.polygons = [g.polygons EXCEPT ![n].end = UNDEFINED]]]
             ELSE [result EXCEPT ![key] = Group_start(g, count)]
    ELSE Map_insert(result, key, Group_new(count))

\* The closure in GroupBuilder::start: reopen an existing Group or insert a
\* new one.
OpenKey(result, key, count) ==
    IF key \in DOMAIN result
    THEN [result EXCEPT ![key] = Group_start(@, count)]
    ELSE Map_insert(result, key, Group_new(count))

\* GroupBuilder::start without the `if *current == input { return }` check.
GroupBuilder_start_Reopens(self, key, count) ==
    LET closed == IF self.current = None
                  THEN [panic |-> FALSE, result |-> self.result]
                  ELSE CloseCurrent(self.result, self.current[1], count)
    IN  IF closed.panic THEN [panic |-> TRUE, builder |-> self]
        ELSE [panic   |-> FALSE,
              builder |-> [current |-> Some(key),
                           result  |-> OpenKey(closed.result, key, count)]]

\* GroupBuilder::start opening the new key without closing the active one.
GroupBuilder_start_LeavesOpen(self, key, count) ==
    IF self.current # None /\ self.current[1] = key
    THEN [panic |-> FALSE, builder |-> self]
    ELSE [panic   |-> FALSE,
          builder |-> [current |-> Some(key),
                       result  |-> OpenKey(self.result, key, count)]]

\* GroupBuilder::start
GroupBuilder_start(self, key, count) ==
    IF self.current # None /\ self.current[1] = key
    THEN [panic |-> FALSE, builder |-> self]
    ELSE LET closed == IF self.current = None
                       THEN [panic |-> FALSE, result |-> self.result]
                       ELSE CloseCurrent(self.result, self.current[1], count)
         IN  IF closed.panic THEN [panic |-> TRUE, builder |-> self]
             ELSE [panic   |-> FALSE,
                   builder |-> [current |-> Some(key),
                                result  |-> OpenKey(closed.result, key, count)]]

\* GroupBuilder::end that forgets the active key without closing its Group.
GroupBuilder_end_Forgets(self, count) ==
    [panic |-> FALSE, builder |-> [self EXCEPT !.current = None]]

\* GroupBuilder::end unwrapping the active key: a failure when none is active.
GroupBuilder_end_Unwraps(self, count) ==
    IF self.current = None THEN [panic |-> TRUE, builder |-> self]
    ELSE LET closed == CloseCurrent(self.result, self.current[1], count)
         IN  IF closed.panic THEN [panic |-> TRUE, builder |-> self]
             ELSE [panic   |-> FALSE,
                   builder |-> [current |-> None, result |-> closed.result]]

\* GroupBuilder::end
GroupBuilder_end(self, count) ==
    IF self.current = None THEN [panic |-> FALSE, builder |-> self]
    ELSE LET closed == CloseCurrent(self.result, self.current[1], count)
         IN  IF closed.panic THEN [panic |-> TRUE, builder |-> self]
             ELSE [panic   |-> FALSE,
                   builder |-> [current |-> None, result |-> closed.result]]

(***************************************************************************)
(* Outcomes of a statement and of the parse.                               *)
(***************************************************************************)
\* error!(kind, ..) and a failed try!(.. .parse()) return an Err value.
ErrorKinds == {"WrongNumberOfArguments", "WrongTypeOfArguments",
               "UnexpectedStatement", "ParseError"}

\* unimplemented!(), an arithmetic overflow check, a failed assert! or index.
Panics == {"unimplemented", "overflow", "assertion"}

Ok(v) == [status |-> "Ok", value |-> v]
Stop(kind) == [status |-> kind, value |-> << >>]

(***************************************************************************)
(* The vertex arms: f!(args) parses every argument, then the slice pattern *)
(* selects on the number of parsed values.                                 *)
(***************************************************************************)
\* The "v" arm examining the number of arguments before parsing them.
V_arm_CountFirst(args) ==
    IF Len(args) \notin {3, 4} THEN Stop("WrongNumberOfArguments")
    ELSE LET f == ParseAllF32(args)
         IN  IF f = None THEN Stop("ParseError")
             ELSE LET a == f[1]
                  IN  Ok(<< a[1], a[2], a[3], IF Len(a) = 4 THEN a[4] ELSE 1 >>)

\* "v" => positions.push(match f!(args) { .. })
V_arm(args) ==
    LET f == ParseAllF32(args)
    IN  IF f = None THEN Stop("ParseError")
        ELSE LET a == f[1]
             IN  CASE Len(a) = 4 -> Ok(<< a[1], a[2], a[3], a[4] >>)
                   [] Len(a) = 3 -> Ok(<< a[1], a[2], a[3], 1 >>)
                   [] OTHER -> Stop("WrongNumberOfArguments")

\* "vt" => tex_coords.push(match f!(args) { .. })
Vt_arm(args) ==
    LET f == ParseAllF32(args)
    IN  IF f = None THEN Stop("ParseError")
        ELSE LET a == f[1]
             IN  CASE Len(a) = 3 -> Ok(<< a[1], a[2], a[3], 0 >>)
                   [] Len(a) = 2 -> Ok(<< a[1], a[2], 0, 0 >>)
                   [] Len(a) = 1 -> Ok(<< a[1], 0, 0, 0 >>)
                   [] OTHER -> Stop("WrongNumberOfArguments")

\* "vn" => normals.push(match f!(args) { .. })
Vn_arm(args) ==
    LET f == ParseAllF32(args)
    IN  IF f = None THEN Stop("ParseError")
        ELSE LET a == f[1]
             IN  CASE Len(a) = 3 -> Ok(<< a[1], a[2], a[3], 0 >>)
                   [] OTHER -> Stop("WrongNumberOfArguments")

\* "vp" => param_vertices.push(match f!(args) { .. })
Vp_arm(args) ==
    LET f == ParseAllF32(args)
    IN  IF f = None THEN Stop("ParseError")
        ELSE LET a == f[1]
             IN  CASE Len(a) = 3 -> Ok(<< a[1], a[2], a[3], 0 >>)
                   [] Len(a) = 2 -> Ok(<< a[1], a[2], 1, 0 >>)
                   [] Len(a) = 1 -> Ok(<< a[1], 0, 1, 0 >>)
                   [] OTHER -> Stop("WrongNumberOfArguments")

(***************************************************************************)
(* The free-form arms that inspect their arguments.                        *)
(***************************************************************************)
s_rat == << "r", "a", "t" >>
s_bmatrix == << "b", "m", "a", "t", "r", "i", "x" >>
s_bezier == << "b", "e", "z", "i", "e", "r" >>
s_bspline == << "b", "s", "p", "l", "i", "n", "e" >>
s_cardinal == << "c", "a", "r", "d", "i", "n", "a", "l" >>
s_taylor == << "t", "a", "y", "l", "o", "r" >>

Geometries == {s_bmatrix, s_bezier, s_bspline, s_cardinal, s_taylor}

\* The "cstype" arm as one more unimplemented!() arm.
Cstype_arm_Unchecked(args) == Stop("unimplemented")

\* "cstype" => { match args { ["rat", ty] .. [ty] .. _ }; match geometry .. }
Cstype_arm(args) ==
    LET geometry == CASE Len(args) = 2 /\ args[1] = s_rat -> Some(args[2])
                      [] Len(args) = 1 -> Some(args[1])
                      [] OTHER -> None
    IN  IF geometry = None THEN Stop("WrongTypeOfArguments")
        ELSE IF geometry[1] \in Geometries THEN Stop("unimplemented")
        ELSE Stop("WrongTypeOfArguments")

\* "deg" => match f!(args) { [_, _] | [_] => unimplemented!(), _ => error }
Deg_arm(args) ==
    LET f == ParseAllF32(args)
    IN  IF f = None THEN Stop("ParseError")
        ELSE IF Len(f[1]) \in {1, 2} THEN Stop("unimplemented")
        ELSE Stop("WrongNumberOfArguments")

\* The arms whose whole body is unimplemented!().
UnimplementedKeywords ==
    {"bmat", "step", "p", "l", "curv", "curv2", "surf", "parm", "trim",
     "hole", "scrv", "sp", "end", "con", "bevel", "c_interp", "d_interp",
     "lod", "shadow_obj", "trace_obj", "ctech", "stech"}

\* Every keyword the match names; anything else falls to the default arm.
RecognizedKeywords ==
    {"v", "vt", "vn", "vp", "cstype", "deg", "f", "g", "s", "mg", "o",
     "usemtl", "mtllib"} \cup UnimplementedKeywords

(***************************************************************************)
(* The face arm.                                                           *)
(***************************************************************************)
\* match s!(first): the arm of m! the first reference selects.
FaceShape(fields) ==
    CASE Len(fields) = 1 -> "P"
      [] Len(fields) = 2 -> "PT"
      [] Len(fields) = 3 /\ fields[2] = << >> -> "PN"
      [] Len(fields) = 3 -> "PTN"
      [] OTHER -> "none"

\* match s!(param) { $pat => .., _ => unimplemented!() }: whether a later
\* reference matches the pattern of the arm the first one selected.
ShapeMatches(shape, fields) ==
    CASE shape = "P" -> Len(fields) = 1
      [] shape = "PT" -> Len(fields) = 2
      [] shape = "PN" -> Len(fields) = 3 /\ fields[2] = << >>
      [] shape = "PTN" -> Len(fields) = 3

\* The fields $exp parses, in evaluation order.
RefFields(shape, fields) ==
    CASE shape = "P" -> << fields[1] >>
      [] shape = "PT" -> << fields[1], fields[2] >>
      [] shape = "PN" -> << fields[1], fields[3] >>
      [] shape = "PTN" -> << fields[1], fields[2], fields[3] >>

\* n!(x) - 1 on usize: with overflow checks 0 - 1 panics, without it wraps.
MinusOne(n, checked) ==
    IF n = 0 THEN (IF checked THEN Stop("overflow") ELSE Ok(UsizeMax))
    ELSE Ok(n - 1)

\* $exp: (n!(p) - 1, n!(t) - 1, ..), left to right, stopping at the first
\* parse error or overflow panic.
RECURSIVE EvalRef(_, _, _)
EvalRef(fs, checked, acc) ==
    IF fs = << >> THEN Ok(acc)
    ELSE LET n == ParseUsize(Head(fs))
         IN  IF n = None THEN Stop("ParseError")
             ELSE LET m == MinusOne(n[1], checked)
                  IN  IF m.status # "Ok" THEN m
                      ELSE EvalRef(Tail(fs), checked, Append(acc, m.value))

\* vec![ $exp ] followed by `for param in args { match s!(param) .. }`.
RECURSIVE PolygonRefs(_, _, _, _, _)
PolygonRefs(shape, params, first, checked, acc) ==
    IF params = << >> THEN Ok(acc)
    ELSE LET fields == Split(Head(params))
         IN  IF ~first /\ ~ShapeMatches(shape, fields)
             THEN Stop("unimplemented")
             ELSE LET r == EvalRef(RefFields(shape, fields), checked, << >>)
                  IN  IF r.status # "Ok" THEN r
                      ELSE PolygonRefs(shape, Tail(params), FALSE, checked,
                                       Append(acc, r.value))

\* The "f" arm building the polygon from the arguments after the first.
F_arm_SkipsFirst(args, checked) ==
    IF Len(args) < 3 THEN Stop("WrongNumberOfArguments")
    ELSE LET shape == FaceShape(Split(args[1]))
         IN  IF shape = "none" THEN Stop("WrongTypeOfArguments")
             ELSE LET r == PolygonRefs(shape, Tail(args), FALSE, checked,
                                       << >>)
                  IN  IF r.status # "Ok" THEN r
                      ELSE Ok([variant |-> shape, refs |-> r.value])

\* "f" => { if args.len() < 3 { error } .. polygons.push(m! { .. }) }
\* A polygon is [variant, refs]; each reference is a tuple of indices (a
\* 1-tuple for Polygon::P).
F_arm(args, checked) ==
    IF Len(args) < 3 THEN Stop("WrongNumberOfArguments")
    ELSE LET shape == FaceShape(Split(args[1]))
         IN  IF shape = "none" THEN Stop("WrongTypeOfArguments")
             ELSE LET r == PolygonRefs(shape, args, TRUE, checked, << >>)
                  IN  IF r.status # "Ok" THEN r
                      ELSE Ok([variant |-> shape, refs |-> r.value])

(***************************************************************************)
(* The grouping arms: which builder call a statement makes.                *)
(***************************************************************************)
s_off == << "o", "f", "f" >>
s_0 == << "0" >>
\* counter.hash_map("default".to_string())
s_default == << "d", "e", "f", "a", "u", "l", "t" >>
\* counter.hash_map(String::new())
s_empty == << >>

\* "g" / "usemtl": [name] => builder.start(name.to_string())
Named_arm(args) ==
    IF Len(args) = 1 THEN Ok([call |-> "start", key |-> args[1]])
    ELSE Stop("WrongNumberOfArguments")

\* The numbered arm with only ["off"] as the closing pattern.
Numbered_arm_OnlyOff(args) ==
    IF Len(args) # 1 THEN Stop("WrongNumberOfArguments")
    ELSE IF args[1] = s_off THEN Ok([call |-> "end", key |-> 0])
         ELSE LET n == ParseUsize(args[1])
              IN  IF n = None THEN Stop("ParseError")
                  ELSE Ok([call |-> "start", key |-> n[1]])

\* "s" / "mg": ["off"] | ["0"] => end(), [param] => start(n!(param))
Numbered_arm(args) ==
    IF Len(args) # 1 THEN Stop("WrongNumberOfArguments")
    ELSE IF args[1] = s_off \/ args[1] = s_0
         THEN Ok([call |-> "end", key |-> 0])
         ELSE LET n == ParseUsize(args[1])
              IN  IF n = None THEN Stop("ParseError")
                  ELSE Ok([call |-> "start", key |-> n[1]])

\* The builder after the call an arm asks for.
Apply(builder, call, count) ==
    IF call.call = "start" THEN GroupBuilder_start(builder, call.key, count)
    ELSE GroupBuilder_end(builder, count)

\* "o" => name = match args { [] => None, args => Some(args.connect(" ")) }
O_arm(args) == IF args = << >> THEN None ELSE Some(Connect(args))

(***************************************************************************)
(* The input: the statements the lexer may deliver. A stream is drawn      *)
(* either from the full lexicon (class "any", short) or from one grouping  *)
(* keyword together with `f` (classes "g", "usemtl", "s", "mg", longer).   *)
(***************************************************************************)
t1 == << "1" >>
t2 == << "2" >>
t3 == << "3" >>
t00 == << "0", "0" >>
tx == << "x" >>
t_foo == << "f", "o", "o" >>
t_bar == << "b", "a", "r" >>
t1_1 == << "1", "/", "1" >>
t2_2 == << "2", "/", "2" >>
t3_3 == << "3", "/", "3" >>
t1__1 == << "1", "/", "/", "1" >>
t2__2 == << "2", "/", "/", "2" >>
t3__3 == << "3", "/", "/", "3" >>
t1_1_1 == << "1", "/", "1", "/", "1" >>
t2_2_2 == << "2", "/", "2", "/", "2" >>
t3_3_3 == << "3", "/", "3", "/", "3" >>
t1_ == << "1", "/" >>
t1_2_3_4 == << "1", "/", "2", "/", "3", "/", "4" >>

Stmt(kw, args) == [kw |-> kw, args |-> args]

FloatArgs ==
    { << >>, << t1 >>, << t1, t2 >>, << t1, t2, t3 >>, << t1, t2, t3, t2 >>,
      << t1, t2, t3, t2, t1 >>, << tx >>, << tx, t1 >>, << t1, tx, t3 >>,
      << t1, t2, t3, t2, tx >> }

FaceOkArgs ==
    { << t1, t2, t3 >>, << t1, t2, t3, t1 >>, << t1_1, t2_2, t3_3 >>,
      << t1__1, t2__2, t3__3 >>, << t1_1_1, t2_2_2, t3_3_3 >> }

FaceBadArgs ==
    { << >>, << t1, t2 >>, << tx, t2_2 >>, << t1_2_3_4, t2 >>,
      << t1, t2_2, t3 >>, << t1, t2, t3_3 >>, << t1_1, t2, t3_3 >>,
      << t1__1, t2_2_2, t3__3 >>, << t1_1_1, t2__2, t3_3_3 >>,
      << t1, t2, t1_2_3_4 >>, << t1_1_1, t2_2_2, t3_3 >>,
      << t1, tx, t3 >>, << t1, tx, t2_2 >>, << t1_2_3_4, t2, t3 >>,
      << s_0, t1, t2 >>, << t1, t2, s_0 >>, << t1, s_0, t2_2 >>,
      << t1_, t2_2, t3_3 >>, << s_empty, t1, t2 >> }

NamedArgs == { << t_foo >>, << t_bar >>, << >>, << t_foo, t_bar >> }

NumberedArgs ==
    { << t1 >>, << s_off >>, << s_0 >>, << t00 >>, << tx >>,
      << >>, << s_off, t1 >>, << tx, tx >> }

WordArgs == { << >>, << t_foo >>, << t_foo, t_bar >> }

CstypeArgs ==
    { << >>, << s_bezier >>, << s_rat, s_taylor >>, << t_foo >>,
      << s_rat >>, << s_rat, t_foo >>, << s_bezier, s_rat >>,
      << s_rat, s_bezier, t_foo >> }

OtherArgs == { << tx >> }

UnknownKeywords == {"foo", "call", "#"}

AnyStmts ==
    {Stmt(kw, a) : kw \in {"v", "vt", "vn", "vp", "deg"}, a \in FloatArgs}
    \cup {Stmt("f", a) : a \in FaceOkArgs \cup FaceBadArgs}
    \cup {Stmt(kw, a) : kw \in {"g", "usemtl"}, a \in NamedArgs}
    \cup {Stmt(kw, a) : kw \in {"s", "mg"}, a \in NumberedArgs}
    \cup {Stmt(kw, a) : kw \in {"o", "mtllib"}, a \in WordArgs}
    \cup {Stmt("cstype", a) : a \in CstypeArgs}
    \cup {Stmt(kw, a) : kw \in UnimplementedKeywords \cup UnknownKeywords,
                        a \in OtherArgs}

Face == Stmt("f", << t1, t2, t3 >>)

Lexicon(class) ==
    CASE class = "any" -> AnyStmts
      [] class = "g" ->
            {Face, Stmt("g", << t_foo >>), Stmt("g", << t_bar >>),
             Stmt("g", << s_default >>)}
      [] class = "usemtl" ->
            {Face, Stmt("usemtl", << t_foo >>), Stmt("usemtl", << t_bar >>)}
      [] class = "s" ->
            {Face, Stmt("s", << t1 >>), Stmt("s", << t2 >>),
             Stmt("s", << s_off >>), Stmt("s", << s_0 >>)}
      [] class = "mg" ->
            {Face, Stmt("mg", << t1 >>), Stmt("mg", << t2 >>),
             Stmt("mg", << s_0 >>)}

Limit(class) == IF class = "any" THEN MaxStmts ELSE MaxGroupStmts

InputClasses == {"any", "g", "usemtl", "s", "mg"}

(***************************************************************************)
(* parse_obj.                                                              *)
(***************************************************************************)
Init ==
    /\ name = None
    /\ material_libraries = << >>
    /\ positions = << >>
    /\ tex_coords = << >>
    /\ normals = << >>
    /\ param_vertices = << >>
    /\ polygons = << >>
    /\ group_builder = Counter_hash_map(s_default)
    /\ mesh_builder = Counter_hash_map(s_empty)
    /\ smoothing_builder = Counter_vec_map
    /\ merging_builder = Counter_vec_map
    /\ outcome = "running"
    /\ consumed = << >>
    /\ input \in InputClasses

\* lex has a statement left to deliver.
Delivering == outcome = "running" /\ Len(consumed) < Limit(input)

\* lex calls the closure with the next statement of the stream.
Lex(st) ==
    /\ consumed' = Append(consumed, st)
    /\ input' = input

\* The closure returning Err after it has pushed a polygon without vertices.
Abort_AfterPush(kind) ==
    /\ outcome' = kind
    /\ polygons' = IF kind \in ErrorKinds
                   THEN Append(polygons, [variant |-> "P", refs |-> << >>])
                   ELSE polygons
    /\ UNCHANGED << name, material_libraries, positions, tex_coords, normals,
                    param_vertices, group_builder, mesh_builder,
                    smoothing_builder, merging_builder >>

\* The closure returns Err (and try!(lex(..)) returns it) or panics.
Abort(kind) ==
    /\ outcome' = kind
    /\ UNCHANGED << name, material_libraries, positions, tex_coords, normals,
                    param_vertices, polygons, group_builder, mesh_builder,
                    smoothing_builder, merging_builder >>

StmtV ==
    /\ Delivering
    /\ \E st \in Lexicon(input) :
         /\ st.kw = "v"
         /\ Lex(st)
         /\ LET r == V_arm(st.args)
            IN  IF r.status = "Ok"
                THEN /\ positions' = Append(positions, r.value)
                     /\ UNCHANGED << name, material_libraries, tex_coords, normals,
                                     param_vertices, polygons, group_builder,
                                     mesh_builder, smoothing_builder,
                                     merging_builder, outcome >>
                ELSE Abort(r.status)

StmtVt ==
    /\ Delivering
    /\ \E st \in Lexicon(input) :
         /\ st.kw = "vt"
         /\ Lex(st)
         /\ LET r == Vt_arm(st.args)
            IN  IF r.status = "Ok"
                THEN /\ tex_coords' = Append(tex_coords, r.value)
                     /\ UNCHANGED << name, material_libraries, positions, normals,
                                     param_vertices, polygons, group_builder,
                                     mesh_builder, smoothing_builder,
                                     merging_builder, outcome >>
                ELSE Abort(r.status)

StmtVn ==
    /\ Delivering
    /\ \E st \in Lexicon(input) :
         /\ st.kw = "vn"
         /\ Lex(st)
         /\ LET r == Vn_arm(st.args)
            IN  IF r.status = "Ok"
                THEN /\ normals' = Append(normals, r.value)
                     /\ UNCHANGED << name, material_libraries, positions,
                                     tex_coords, param_vertices, polygons,
                                     group_builder, mesh_builder,
                                     smoothing_builder, merging_builder, outcome >>
                ELSE Abort(r.status)

StmtVp ==
    /\ Delivering
    /\ \E st \in Lexicon(input) :
         /\ st.kw = "vp"
         /\ Lex(st)
         /\ LET r == Vp_arm(st.args)
            IN  IF r.status = "Ok"
                THEN /\ param_vertices' = Append(param_vertices, r.value)
                     /\ UNCHANGED << name, material_libraries, positions,
                                     tex_coords, normals, polygons, group_builder,
                                     mesh_builder, smoothing_builder,
                                     merging_builder, outcome >>
                ELSE Abort(r.status)

StmtCstype ==
    /\ Delivering
    /\ \E st \in Lexicon(input) :
         /\ st.kw = "cstype"
         /\ Lex(st)
         /\ Abort(Cstype_arm(st.args).status)

StmtDeg ==
    /\ Delivering
    /\ \E st \in Lexicon(input) :
         /\ st.kw = "deg"
         /\ Lex(st)
         /\ Abort(Deg_arm(st.args).status)

StmtUnimplemented ==
    /\ Delivering
    /\ \E st \in Lexicon(input) :
         /\ st.kw \in UnimplementedKeywords
         /\ Lex(st)
         /\ Abort("unimplemented")

\* Whether the build checks arithmetic overflow is not fixed by the source.
StmtF ==
    /\ Delivering
    /\ \E st \in Lexicon(input) :
         /\ st.kw = "f"
         /\ Lex(st)
         /\ \E checked \in BOOLEAN :
              LET r == F_arm(st.args, checked)
              IN  IF r.status = "Ok"
                  THEN /\ polygons' = Append(polygons, r.value)
                       /\ UNCHANGED << name, material_libraries, positions,
                                       tex_coords, normals, param_vertices,
                                       group_builder, mesh_builder,
                                       smoothing_builder, merging_builder,
                                       outcome >>
                  ELSE Abort(r.status)

StmtG ==
    /\ Delivering
    /\ \E st \in Lexicon(input) :
         /\ st.kw = "g"
         /\ Lex(st)
         /\ LET r == Named_arm(st.args)
            IN  IF r.status # "Ok" THEN Abort(r.status)
                ELSE LET b == Apply(group_builder, r.value, Counter_get(polygons))
                     IN  IF b.panic THEN Abort("assertion")
                         ELSE /\ group_builder' = b.builder
                              /\ UNCHANGED << name, material_libraries, positions,
                                              tex_coords, normals, param_vertices,
                                              polygons, mesh_builder,
                                              smoothing_builder, merging_builder,
                                              outcome >>

\* The "usemtl" arm driving the builder of the "g" arm.
StmtUsemtl_ViaGroups ==
    /\ Delivering
    /\ \E st \in Lexicon(input) :
         /\ st.kw = "usemtl"
         /\ Lex(st)
         /\ LET r == Named_arm(st.args)
            IN  IF r.status # "Ok" THEN Abort(r.status)
                ELSE LET b == Apply(group_builder, r.value, Counter_get(polygons))
                     IN  IF b.panic THEN Abort("assertion")
                         ELSE /\ group_builder' = b.builder
                              /\ UNCHANGED << name, material_libraries, positions,
                                              tex_coords, normals, param_vertices,
                                              polygons, mesh_builder,
                                              smoothing_builder, merging_builder,
                                              outcome >>

StmtUsemtl ==
    /\ Delivering
    /\ \E st \in Lexicon(input) :
         /\ st.kw = "usemtl"
         /\ Lex(st)
         /\ LET r == Named_arm(st.args)
            IN  IF r.status # "Ok" THEN Abort(r.status)
                ELSE LET b == Apply(mesh_builder, r.value, Counter_get(polygons))
                     IN  IF b.panic THEN Abort("assertion")
                         ELSE /\ mesh_builder' = b.builder
                              /\ UNCHANGED << name, material_libraries, positions,
                                              tex_coords, normals, param_vertices,
                                              polygons, group_builder,
                                              smoothing_builder, merging_builder,
                                              outcome >>

StmtS ==
    /\ Delivering
    /\ \E st \in Lexicon(input) :
         /\ st.kw = "s"
         /\ Lex(st)
         /\ LET r == Numbered_arm(st.args)
            IN  IF r.status # "Ok" THEN Abort(r.status)
                ELSE LET b == Apply(smoothing_builder, r.value,
                                    Counter_get(polygons))
                     IN  IF b.panic THEN Abort("assertion")
                         ELSE /\ smoothing_builder' = b.builder
                              /\ UNCHANGED << name, material_libraries, positions,
                                              tex_coords, normals, param_vertices,
                                              polygons, group_builder,
                                              mesh_builder, merging_builder,
                                              outcome >>

StmtMg ==
    /\ Delivering
    /\ \E st \in Lexicon(input) :
         /\ st.kw = "mg"
         /\ Lex(st)
         /\ LET r == Numbered_arm(st.args)
            IN  IF r.status # "Ok" THEN Abort(r.status)
                ELSE LET b == Apply(merging_builder, r.value,
                                    Counter_get(polygons))
                     IN  IF b.panic THEN Abort("assertion")
                         ELSE /\ merging_builder' = b.builder
                              /\ UNCHANGED << name, material_libraries, positions,
                                              tex_coords, normals, param_vertices,
                                              polygons, group_builder,
                                              mesh_builder, smoothing_builder,
                                              outcome >>

StmtO ==
    /\ Delivering
    /\ \E st \in Lexicon(input) :
         /\ st.kw = "o"
         /\ Lex(st)
         /\ name' = O_arm(st.args)
         /\ UNCHANGED << material_libraries, positions, tex_coords, normals,
                         param_vertices, polygons, group_builder, mesh_builder,
                         smoothing_builder, merging_builder, outcome >>

StmtMtllib ==
    /\ Delivering
    /\ \E st \in Lexicon(input) :
         /\ st.kw = "mtllib"
         /\ Lex(st)
         /\ material_libraries' = PushAll(material_libraries, st.args)
         /\ UNCHANGED << name, positions, tex_coords, normals, param_vertices,
                         polygons, group_builder, mesh_builder, smoothing_builder,
                         merging_builder, outcome >>

StmtUnexpected ==
    /\ Delivering
    /\ \E st \in Lexicon(input) :
         /\ st.kw \notin RecognizedKeywords
         /\ Lex(st)
         /\ Abort("UnexpectedStatement")

\* End of stream: lex returns Ok, the four builders are ended, Ok(RawObj).
Finish ==
    /\ outcome = "running"
    /\ LET count == Counter_get(polygons)
           g == GroupBuilder_end(group_builder, count)
           m == GroupBuilder_end(mesh_builder, count)
           s == GroupBuilder_end(smoothing_builder, count)
           x == GroupBuilder_end(merging_builder, count)
       IN  IF g.panic \/ m.panic \/ s.panic \/ x.panic
           THEN /\ outcome' = "assertion"
                /\ UNCHANGED << group_builder, mesh_builder,
                                smoothing_builder, merging_builder >>
           ELSE /\ outcome' = "Ok"
                /\ group_builder' = g.builder
                /\ mesh_builder' = m.builder
                /\ smoothing_builder' = s.builder
                /\ merging_builder' = x.builder
    /\ UNCHANGED << name, material_libraries, positions, tex_coords, normals,
                    param_vertices, polygons, consumed, input >>

Next ==
    \/ StmtV \/ StmtVt \/ StmtVn \/ StmtVp
    \/ StmtCstype \/ StmtDeg \/ StmtUnimplemented
    \/ StmtF
    \/ StmtG \/ StmtS \/ StmtMg \/ StmtO
    \/ StmtUsemtl \/ StmtMtllib
    \/ StmtUnexpected
    \/ Finish

Spec == Init /\ [][Next]_vars

(***************************************************************************)
(* Vocabulary of the properties.                                           *)
(***************************************************************************)
Last(seq) == seq[Len(seq)]
Front(seq) == SubSeq(seq, 1, Len(seq) - 1)

\* n `f` statements in a row.
Faces(n) == [i \in 1..n |-> Face]

G(key) == Stmt("g", << key >>)

\* The statement the step delivers to the closure, when it delivers one.
Delivers == consumed' # consumed
Delivered == Last(consumed')

\* The statements the closure accepted (it returned Ok(()) for them).
Accepted ==
    IF outcome \in {"running", "Ok"} \/ consumed = << >> THEN consumed
    ELSE Front(consumed)

Builders ==
    << group_builder, mesh_builder, smoothing_builder, merging_builder >>

Kinds(g) == << g.points, g.lines, g.polygons >>

\* Every Range a table stores, of every key and kind.
AllRanges(result) ==
    UNION { UNION { {Kinds(result[k])[x][j] :
                        j \in 1..Len(Kinds(result[k])[x])} : x \in 1..3 } :
            k \in DOMAIN result }

\* The (key, position) pairs of the polygon Ranges of a table that contain i.
Cover(result, i) ==
    UNION { { << k, j >> : j \in { j \in 1..Len(result[k].polygons) :
                                     /\ result[k].polygons[j].start <= i
                                     /\ i < result[k].polygons[j].end } } :
            k \in DOMAIN result }

\* For each `f` of stmts in order, the key (an Option) that the most recent
\* statement with keyword kw selected, starting from cur.
RECURSIVE KeyAtFace(_, _, _, _)
KeyAtFace(stmts, kw, cur, acc) ==
    IF stmts = << >> THEN acc
    ELSE LET st == Head(stmts)
             nxt == IF st.kw # kw THEN cur
                    ELSE IF kw \in {"g", "usemtl"} THEN Some(st.args[1])
                    ELSE IF st.args[1] \in {s_off, s_0} THEN None
                    ELSE ParseUsize(st.args[1])
         IN  KeyAtFace(Tail(stmts), kw, nxt,
                       IF st.kw = "f" THEN Append(acc, cur) ELSE acc)

\* The numbers of polygons stored when a statement with keyword kw was
\* processed.
RECURSIVE CountsAt(_, _, _)
CountsAt(stmts, kw, n) ==
    IF stmts = << >> THEN {}
    ELSE LET st == Head(stmts)
         IN  (IF st.kw = kw THEN {n} ELSE {})
             \cup CountsAt(Tail(stmts), kw, IF st.kw = "f" THEN n + 1 ELSE n)

\* A start of the key that is already active leaves its builder as it was.
C1Step ==
    Delivers =>
      LET st == Delivered
          k == IF Len(st.args) = 1 THEN ParseUsize(st.args[1]) ELSE None
          numbered == Len(st.args) = 1 /\ st.args[1] \notin {s_off, s_0}
                      /\ k # None
      IN  /\ (st.kw = "g" /\ Len(st.args) = 1
                /\ group_builder.current = Some(st.args[1]))
             => (group_builder' = group_builder /\ outcome' = "running")
          /\ (st.kw = "usemtl" /\ Len(st.args) = 1
                /\ mesh_builder.current = Some(st.args[1]))
             => (mesh_builder' = mesh_builder /\ outcome' = "running")
          /\ (st.kw = "s" /\ numbered /\ smoothing_builder.current = k)
             => (smoothing_builder' = smoothing_builder
                 /\ outcome' = "running")
          /\ (st.kw = "mg" /\ numbered /\ merging_builder.current = k)
             => (merging_builder' = merging_builder /\ outcome' = "running")

\* c faces, `g foo`, `g foo`, n >= 1 faces, end of stream.
C1Scenario ==
    outcome = "Ok" =>
      \A c \in 0..Len(consumed) :
        LET n == Len(consumed) - 2 - c
        IN  (n >= 1
               /\ consumed = Faces(c) \o << G(t_foo), G(t_foo) >> \o Faces(n))
            => /\ t_foo \in DOMAIN group_builder.result
               /\ group_builder.result[t_foo].polygons
                    = << Range(c, c + n) >>

(***************************************************************************)
(* C1: start(k) while k is the active key changes nothing, for each of the *)
(* four builders; and `g foo`, `g foo`, n >= 1 faces, end of stream leaves *)
(* exactly one polygon Range for foo.                                      *)
(***************************************************************************)
C1_RestartIsNoOp == [](C1Scenario) /\ [][C1Step]_vars

\* Polygons were added under foo, `g foo` was issued again, the stream ended.
C1_Witness ==
    /\ outcome = "Ok"
    /\ consumed = << G(t_foo), Face, G(t_foo), Face >>

\* Closed Ranges are not empty, and a key that is not active holds a Range.
C2Inv ==
    \A x \in 1..4 :
        LET b == Builders[x]
        IN  /\ \A r \in AllRanges(b.result) :
                   r.end # UNDEFINED => r.start < r.end
            /\ \A k \in DOMAIN b.result :
                   b.current # Some(k)
                   => \E y \in 1..3 : Kinds(b.result[k])[y] # << >>

\* The step closes the active group of builder b (b2 is b after the step)
\* with n polygons stored, nothing having been added since it was opened.
C2Closing(b, b2, n) ==
    (b.current # None /\ b2.current # b.current
       /\ Last(b.result[b.current[1]].polygons).start = n)
    => LET k == b.current[1]
           g == b.result[k]
           rest == [points   |-> Front(g.points),
                    lines    |-> Front(g.lines),
                    polygons |-> Front(g.polygons)]
           bare == \A y \in 1..3 : Kinds(rest)[y] = << >>
       IN  /\ k \in DOMAIN b2.result <=> ~bare
           /\ k \in DOMAIN b2.result => b2.result[k] = rest

\* Every step closes its builders' groups as C2Closing says.
C2Step ==
    /\ C2Closing(group_builder, group_builder', Len(polygons))
    /\ C2Closing(mesh_builder, mesh_builder', Len(polygons))
    /\ C2Closing(smoothing_builder, smoothing_builder', Len(polygons))
    /\ C2Closing(merging_builder, merging_builder', Len(polygons))

(***************************************************************************)
(* C2: no table stores a zero-length closed Range; a key that is in a      *)
(* table and is not active holds at least one Range; closing a group to    *)
(* which nothing was added since it was opened drops the Range just        *)
(* opened, and removes the key iff no Range of any kind is left.           *)
(***************************************************************************)
C2_NoEmptyRange == [](C2Inv) /\ [][C2Step]_vars

\* bar was opened and closed with nothing added and is gone, while foo, also
\* closed without additions the second time, keeps its earlier Range.
C2_Witness ==
    /\ consumed = << G(t_foo), Face, G(t_bar), G(t_foo), G(t_bar) >>
    /\ DOMAIN group_builder.result = {t_foo, t_bar}
    /\ group_builder.result[t_foo].polygons = << Range(0, 1) >>

\* c faces, `g foo`, n >= 1 faces, `g bar`, `g foo`, m >= 1 faces, end of
\* stream.
C3Scenario ==
    outcome = "Ok" =>
      \A c \in 0..Len(consumed), n \in 1..Len(consumed) :
        LET m == Len(consumed) - 3 - c - n
        IN  (m >= 1 /\ consumed = Faces(c) \o << G(t_foo) >> \o Faces(n)
                                    \o << G(t_bar), G(t_foo) >> \o Faces(m))
            => /\ t_foo \in DOMAIN group_builder.result
               /\ group_builder.result[t_foo].polygons
                    = << Range(c, c + n), Range(c + n, c + n + m) >>
               /\ t_bar \notin DOMAIN group_builder.result

\* The step makes k, a key of the table that was not active, the active key
\* of builder b (b2 is b after the step) with n polygons stored.
C3Reopening(b, b2, n) ==
    \A k \in DOMAIN b.result :
        (b.current # Some(k) /\ b2.current = Some(k))
        => /\ k \in DOMAIN b2.result
           /\ b2.result[k].polygons
                = Append(b.result[k].polygons, Range(n, UNDEFINED))
           /\ b2.result[k].points
                = Append(b.result[k].points, Range(Len(points), UNDEFINED))
           /\ b2.result[k].lines
                = Append(b.result[k].lines, Range(Len(lines), UNDEFINED))

\* Every step reopens its builders' groups as C3Reopening says.
C3Step ==
    /\ C3Reopening(group_builder, group_builder', Len(polygons))
    /\ C3Reopening(mesh_builder, mesh_builder', Len(polygons))
    /\ C3Reopening(smoothing_builder, smoothing_builder', Len(polygons))
    /\ C3Reopening(merging_builder, merging_builder', Len(polygons))

(***************************************************************************)
(* C3: reopening a closed key appends a new Range and leaves the earlier   *)
(* ones as they were. After c faces, `g foo`, n >= 1 faces, `g bar`,       *)
(* `g foo`, m >= 1 faces and end of stream, foo holds exactly the polygon  *)
(* Ranges [c, c+n) and [c+n, c+n+m), in that order, and bar is no key; and *)
(* in every builder a start of a key already in the table keeps that       *)
(* key's Ranges and adds one open Range after them.                        *)
(***************************************************************************)
C3_ReopenAppends == [](C3Scenario) /\ [][C3Step]_vars

\* One face already present, then the scenario with n = m = 1.
C3_Witness ==
    /\ outcome = "Ok"
    /\ consumed = << Face, G(t_foo), Face, G(t_bar), G(t_foo), Face >>
    /\ Len(group_builder.result[t_foo].polygons) = 2

(***************************************************************************)
(* C4: in the RawObj of a successful parse no Range of the four tables has *)
(* end = UNDEFINED, and every Range ends at or before the final length of  *)
(* its element list.                                                       *)
(***************************************************************************)
C4_EndOfStreamCloses ==
    outcome = "Ok" =>
      \A x \in 1..4 : \A k \in DOMAIN Builders[x].result :
          LET g == Builders[x].result[k]
          IN  /\ \A j \in 1..Len(g.points) :
                     /\ g.points[j].end # UNDEFINED
                     /\ g.points[j].end <= Len(points)
              /\ \A j \in 1..Len(g.lines) :
                     /\ g.lines[j].end # UNDEFINED
                     /\ g.lines[j].end <= Len(lines)
              /\ \A j \in 1..Len(g.polygons) :
                     /\ g.polygons[j].end # UNDEFINED
                     /\ g.polygons[j].end <= Len(polygons)

\* The stream ended right after a face, with a smoothing group still open.
C4_Witness ==
    /\ outcome = "Ok"
    /\ consumed = << Stmt("s", << t1 >>), Face, Stmt("s", << t2 >>), Face >>
    /\ DOMAIN smoothing_builder.result = {1, 2}

\* The polygon Ranges of a string-keyed table against the statements
\* delivered.
C5Table(b, kw, default) ==
    LET keys == KeyAtFace(consumed, kw, Some(default), << >>)
        N == Len(polygons)
        marks == CountsAt(consumed, kw, 0)
    IN  /\ Len(keys) = N
        /\ \A i \in 0..(N - 1) :
               /\ Cardinality(Cover(b.result, i)) = 1
               /\ \A kj \in Cover(b.result, i) : Some(kj[1]) = keys[i + 1]
        /\ \A k \in DOMAIN b.result : \A j \in 1..Len(b.result[k].polygons) :
               /\ b.result[k].polygons[j].start \in marks \cup {0}
               /\ b.result[k].polygons[j].end \in marks \cup {N}

(***************************************************************************)
(* C5: after a successful parse with N polygons, in groups (and in meshes) *)
(* every polygon index lies in exactly one Range of exactly one key, the   *)
(* argument of the most recent `g` (`usemtl`) before its face, or the      *)
(* default key; every Range boundary is the number of polygons stored when *)
(* a `g` (`usemtl`) statement, the construction or the end of stream was   *)
(* processed.                                                              *)
(***************************************************************************)
C5_NamedTablesTile ==
    outcome = "Ok" =>
      /\ C5Table(group_builder, "g", s_default)
      /\ C5Table(mesh_builder, "usemtl", s_empty)

\* Faces under the default key, under foo, under bar and under foo again.
C5_Witness ==
    /\ outcome = "Ok"
    /\ consumed = << Face, G(t_foo), Face, G(t_bar), Face, G(t_foo) >>
    /\ DOMAIN group_builder.result = {s_default, t_foo, t_bar}

\* The polygon Ranges of a numeric-keyed table against the statements
\* delivered.
C6Table(b, kw) ==
    LET keys == KeyAtFace(consumed, kw, None, << >>)
    IN  /\ Len(keys) = Len(polygons)
        /\ \A i \in 0..(Len(polygons) - 1) :
               /\ Cardinality(Cover(b.result, i)) <= 1
               /\ \A k \in DOMAIN b.result \cup {keys[j][1] :
                              j \in {j \in 1..Len(keys) : keys[j] # None}} :
                      (\E kj \in Cover(b.result, i) : kj[1] = k)
                      <=> keys[i + 1] = Some(k)

\* `s 1`, two faces, `s off`.
C6Example ==
    consumed = << Stmt("s", << t1 >>), Face, Face, Stmt("s", << s_off >>) >>
    => smoothing_builder.result
         = Map_insert(EmptyMap, 1, [points   |-> << >>,
                                    lines    |-> << >>,
                                    polygons |-> << Range(0, 2) >>])

(***************************************************************************)
(* C6: in smoothing_groups (and merging_groups), after a successful parse, *)
(* polygon i lies in a Range of key k iff the most recent `s` (`mg`)       *)
(* before its face was a start of k; after none, or after off / 0, it lies *)
(* in no Range. `s 1`, two faces, `s off` yields key 1 with polygons       *)
(* [[0,2)] and no point or line Range.                                     *)
(***************************************************************************)
C6_NumberedTables ==
    /\ C6Example
    /\ outcome = "Ok" =>
         /\ C6Table(smoothing_builder, "s")
         /\ C6Table(merging_builder, "mg")

\* A face before any `mg`, one under key 1, one after `mg 0`.
C6_Witness ==
    /\ outcome = "Ok"
    /\ consumed = << Face, Stmt("mg", << t1 >>), Face, Stmt("mg", << s_0 >>),
                     Face >>
    /\ merging_builder.result[1].polygons = << Range(1, 2) >>

(***************************************************************************)
(* Vocabulary of the statement properties.                                 *)
(***************************************************************************)
IsFace(st) == st.kw = "f"
NonEmpty(field) == field # << >>

\* The reference shape of a token, read off its slashes.
RefShape(tok) ==
    LET slashes == {i \in 1..Len(tok) : tok[i] = "/"}
    IN  CASE Cardinality(slashes) = 0 -> "P"
          [] Cardinality(slashes) = 1 -> "PT"
          [] Cardinality(slashes) = 2 ->
                IF \E i \in slashes : i + 1 \in slashes THEN "PN" ELSE "PTN"
          [] OTHER -> "none"

MixedShapes(args) == \E i \in 2..Len(args) : RefShape(args[i]) # RefShape(args[1])

\* The indices a token names, each minus one on usize.
RefOf(tok) ==
    LET nums == SelectSeq(Split(tok), NonEmpty)
    IN  [j \in 1..Len(nums) |->
            (ParseUsize(nums[j])[1] + UsizeMax) % (UsizeMax + 1)]

AllParseF32(args) == \A i \in 1..Len(args) : ParseF32(args[i]) # None

\* The number of arguments of a statement is outside what its keyword allows.
BadCount(st) ==
    LET n == Len(st.args)
    IN  \/ st.kw = "v" /\ n \notin {3, 4}
        \/ st.kw \in {"vt", "vp"} /\ n \notin {1, 2, 3}
        \/ st.kw = "vn" /\ n # 3
        \/ st.kw = "f" /\ n < 3
        \/ st.kw \in {"s", "mg"} /\ n # 1

(***************************************************************************)
(* C7: an `f` statement with at least 3 arguments in which a later vertex  *)
(* reference has another shape than the first ends in an error value, and  *)
(* appends no polygon.                                                     *)
(***************************************************************************)
C7_MixedShapeIsError ==
    (consumed # << >> /\ IsFace(Last(consumed))
       /\ Len(Last(consumed).args) >= 3 /\ MixedShapes(Last(consumed).args))
    => /\ outcome \in ErrorKinds
       /\ Len(polygons) = Len(SelectSeq(Front(consumed), IsFace))

(***************************************************************************)
(* C8 as claimed: a `v`, `vt`, `vn`, `vp` statement with an argument count *)
(* outside its range, an `f` with fewer than 3 arguments and an `s` / `mg` *)
(* with a count other than 1 all give WrongNumberOfArguments, whatever the *)
(* arguments are.                                                          *)
(***************************************************************************)
C8_CountBeforeParse ==
    (consumed # << >> /\ BadCount(Last(consumed)))
    => outcome = "WrongNumberOfArguments"

(***************************************************************************)
(* C8 as amended: `f` with fewer than 3 arguments and `s` / `mg` with a    *)
(* count other than 1 give WrongNumberOfArguments whatever the arguments   *)
(* are; `v`, `vt`, `vn`, `vp` parse every argument first, so a count       *)
(* outside the range gives WrongNumberOfArguments when all arguments are   *)
(* numbers and the numeric parse error when one is not.                    *)
(***************************************************************************)
C8_CountErrors ==
    (consumed # << >> /\ BadCount(Last(consumed)))
    => LET st == Last(consumed)
       IN  IF st.kw \in {"v", "vt", "vn", "vp"} /\ ~AllParseF32(st.args)
           THEN outcome = "ParseError"
           ELSE outcome = "WrongNumberOfArguments"

\* `v x 1`: two arguments, the first not a number.
C8_Witness ==
    /\ consumed # << >>
    /\ Last(consumed) = Stmt("v", << tx, t1 >>)
    /\ outcome = "ParseError"

\* The keywords that are recognized and not yet interpretable.
NotInterpretable ==
    {"cstype", "deg", "bmat", "step", "p", "l", "curv", "curv2", "surf",
     "parm", "trim", "hole", "scrv", "sp", "end", "con", "bevel", "c_interp",
     "d_interp", "lod", "shadow_obj", "trace_obj", "ctech", "stech"}

(***************************************************************************)
(* C9 as claimed: a statement with an unknown keyword gives                *)
(* UnexpectedStatement, and a statement whose keyword is recognized but    *)
(* not interpretable gives an outcome that is neither UnexpectedStatement  *)
(* nor WrongNumberOfArguments nor WrongTypeOfArguments.                    *)
(***************************************************************************)
C9_KeywordOutcomes ==
    consumed # << >> =>
      LET st == Last(consumed)
      IN  /\ st.kw \notin RecognizedKeywords
             => outcome = "UnexpectedStatement"
          /\ st.kw \in NotInterpretable
             => outcome \notin {"running", "Ok", "UnexpectedStatement",
                                "WrongNumberOfArguments",
                                "WrongTypeOfArguments"}

\* `cstype [rat] <geometry>` with one of the five geometries.
CstypeWellFormed(args) ==
    \/ Len(args) = 1 /\ args[1] \in Geometries
    \/ Len(args) = 2 /\ args[1] = s_rat /\ args[2] \in Geometries

(***************************************************************************)
(* C9 as amended: a statement with an unknown keyword gives                *)
(* UnexpectedStatement; a statement whose keyword is recognized but not    *)
(* interpretable ends in the unimplemented panic, which is none of the     *)
(* error values, except that `cstype` whose arguments are not `[rat] <one  *)
(* of the five geometries>` gives WrongTypeOfArguments and `deg` gives the *)
(* numeric parse error for an argument that is no number and               *)
(* WrongNumberOfArguments for a count other than 1 or 2.                   *)
(***************************************************************************)
C9_KeywordOutcomesAmended ==
    consumed # << >> =>
      LET st == Last(consumed)
      IN  /\ st.kw \notin RecognizedKeywords
             => outcome = "UnexpectedStatement"
          /\ st.kw \in NotInterpretable \ {"cstype", "deg"}
             => outcome = "unimplemented"
          /\ st.kw = "cstype"
             => outcome = IF CstypeWellFormed(st.args) THEN "unimplemented"
                          ELSE "WrongTypeOfArguments"
          /\ st.kw = "deg"
             => outcome = IF ~AllParseF32(st.args) THEN "ParseError"
                          ELSE IF Len(st.args) \in {1, 2} THEN "unimplemented"
                          ELSE "WrongNumberOfArguments"

\* `cstype rat foo`: a recognized keyword with an unknown geometry.
C9_Witness ==
    /\ consumed # << >>
    /\ Last(consumed) = Stmt("cstype", << s_rat, t_foo >>)
    /\ outcome = "WrongTypeOfArguments"

(***************************************************************************)
(* C10: the polygon list holds exactly one polygon per accepted `f`        *)
(* statement, in order; each has as many vertex references as the          *)
(* statement has arguments (at least 3), in argument order, and the        *)
(* variant of the first argument's shape; an `f` with fewer than 3         *)
(* arguments is not accepted and appends nothing.                          *)
(***************************************************************************)
C10_OnePolygonPerFace ==
    LET fs == SelectSeq(Accepted, IsFace)
    IN  /\ Len(polygons) = Len(fs)
        /\ \A i \in 1..Len(fs) :
               LET a == fs[i].args
                   p == polygons[i]
               IN  /\ Len(a) >= 3
                   /\ Len(p.refs) = Len(a)
                   /\ p.variant = RefShape(a[1])
                   /\ \A j \in 1..Len(a) : p.refs[j] = RefOf(a[j])

\* A position//normal triangle followed by a position-only quadrilateral.
C10_Witness ==
    /\ outcome = "running"
    /\ consumed = << Stmt("f", << t1__1, t2__2, t3__3 >>),
                     Stmt("f", << t1, t2, t3, t1 >>) >>
    /\ Len(polygons) = 2
    /\ polygons[2].refs = << << 0 >>, << 1 >>, << 2 >>, << 0 >> >>

(***************************************************************************)
(* Vocabulary of the builder invariants.                                   *)
(***************************************************************************)
\* The Range sequences of every Group of the four tables, of every kind.
AllSequences ==
    UNION { UNION { { Kinds(Builders[x].result[k])[y] : y \in 1..3 } :
                    k \in DOMAIN Builders[x].result } : x \in 1..4 }

\* The positions of the open Ranges of a sequence.
OpenAt(seq) == {j \in 1..Len(seq) : seq[j].end = UNDEFINED}

(***************************************************************************)
(* C11: in every reachable state, in every Group of every table and for    *)
(* every element kind, the Ranges are in nondecreasing order of start and  *)
(* do not overlap: of two consecutive Ranges the earlier one is closed and *)
(* ends at or before the start of the later one.                           *)
(***************************************************************************)
C11_RangesOrdered ==
    \A seq \in AllSequences : \A j \in 1..(Len(seq) - 1) :
        /\ seq[j].start <= seq[j + 1].start
        /\ seq[j].end # UNDEFINED
        /\ seq[j].end <= seq[j + 1].start

\* foo was closed after one face and is reopened after a face under bar.
C11_Witness ==
    /\ consumed = << G(t_foo), Face, G(t_bar), Face, G(t_foo) >>
    /\ group_builder.result[t_foo].polygons
         = << Range(0, 1), Range(2, UNDEFINED) >>

(***************************************************************************)
(* C12: in every reachable state a Range sequence has at most one open     *)
(* Range and an open Range is the last of its sequence; in each table only *)
(* the Group of the active key has open Ranges, so that a start never      *)
(* reopens a Group that still has an open Range, and when no key is active *)
(* no Range of the table is open.                                          *)
(***************************************************************************)
C12_OneOpenRange ==
    /\ \A seq \in AllSequences :
           /\ Cardinality(OpenAt(seq)) <= 1
           /\ OpenAt(seq) \subseteq {Len(seq)}
    /\ \A x \in 1..4 :
           LET b == Builders[x]
           IN  /\ \A k \in DOMAIN b.result :
                      b.current # Some(k)
                      => \A y \in 1..3 : OpenAt(Kinds(b.result[k])[y]) = {}
               /\ b.current = None
                      => \A r \in AllRanges(b.result) : r.end # UNDEFINED

\* foo holds a closed Range while bar, the active key, holds the open one;
\* no smoothing group was ever started.
C12_Witness ==
    /\ consumed = << G(t_foo), Face, G(t_bar) >>
    /\ group_builder.current = Some(t_bar)
    /\ group_builder.result[t_foo].polygons = << Range(0, 1) >>
    /\ OpenAt(group_builder.result[t_bar].polygons) = {1}
    /\ smoothing_builder.current = None

(***************************************************************************)
(* C13: no assertion and no index computation of the group builder fails,  *)
(* whatever the statements are: the parse never ends in a failed assert or *)
(* index, and whenever a builder's active key is Some(k), k is a key of    *)
(* its table and each of the three Range sequences of its Group is         *)
(* non-empty with an open last Range.                                      *)
(***************************************************************************)
C13_BuilderNeverPanics ==
    /\ outcome # "assertion"
    /\ \A x \in 1..4 :
           LET b == Builders[x]
           IN  b.current # None
               => /\ b.current[1] \in DOMAIN b.result
                  /\ \A y \in 1..3 :
                         LET seq == Kinds(b.result[b.current[1]])[y]
                         IN  /\ seq # << >>
                             /\ Last(seq).end = UNDEFINED

\* The default key and foo were removed as empty, bar was closed with a face,
\* foo was inserted again, restarted, and removed at the end of the stream.
C13_Witness ==
    /\ outcome = "Ok"
    /\ consumed = << G(t_foo), G(t_bar), Face, G(t_foo), G(t_foo) >>
    /\ DOMAIN group_builder.result = {t_bar}

(***************************************************************************)
(* Vocabulary of the frame properties.                                     *)
(***************************************************************************)
\* The element lists a statement can grow.
Lists == << positions, tex_coords, normals, param_vertices, polygons >>

\* What the four grouping statements leave alone, and what the statements
\* that are not grouping statements leave alone.
C14Step ==
    Delivers =>
      LET kw == Delivered.kw
      IN  /\ kw = "g"
             => UNCHANGED << mesh_builder, smoothing_builder, merging_builder,
                             Lists, name, material_libraries >>
          /\ kw = "usemtl"
             => UNCHANGED << group_builder, smoothing_builder, merging_builder,
                             Lists, name, material_libraries >>
          /\ kw = "s"
             => UNCHANGED << group_builder, mesh_builder, merging_builder,
                             Lists, name, material_libraries >>
          /\ kw = "mg"
             => UNCHANGED << group_builder, mesh_builder, smoothing_builder,
                             Lists, name, material_libraries >>
          /\ kw \in {"f", "v", "vt", "vn", "vp", "o", "mtllib"}
             => UNCHANGED Builders

(***************************************************************************)
(* C14: the four builders are pairwise independent. A `g` statement        *)
(* changes only the groups table and its active key, `usemtl` only those   *)
(* of meshes, `s` only those of smoothing_groups, `mg` only those of       *)
(* merging_groups; each leaves the other three builders, the element       *)
(* lists, the name and the material libraries as they were; and an `f`,    *)
(* `v`, `vt`, `vn`, `vp`, `o` or `mtllib` statement changes no table and   *)
(* no active key.                                                          *)
(***************************************************************************)
C14_BuildersIndependent == [][C14Step]_vars

\* A `usemtl` and then an `s` statement each moved its own builder only.
C14_Witness ==
    /\ consumed = << Stmt("usemtl", << t_foo >>), Stmt("s", << t1 >>) >>
    /\ outcome = "running"
    /\ group_builder = Counter_hash_map(s_default)
    /\ merging_builder = Counter_vec_map
    /\ mesh_builder.current = Some(t_foo)
    /\ smoothing_builder.current = Some(1)

\* The argument lists on which the "s" and "mg" arms call end().
EndArgs == { << s_off >>, << s_0 >> }

\* A statement that calls end() on builder b (b2 is b after the step).
C15Ending(b, b2) ==
    /\ outcome' = "running"
    /\ b2.current = None
    /\ b.current = None => b2 = b

\* Every end(): of `s off` / `s 0`, of `mg off` / `mg 0`, and the four at the
\* end of the stream.
C15Step ==
    /\ (Delivers /\ Delivered.kw = "s" /\ Delivered.args \in EndArgs)
       => C15Ending(smoothing_builder, smoothing_builder')
    /\ (Delivers /\ Delivered.kw = "mg" /\ Delivered.args \in EndArgs)
       => C15Ending(merging_builder, merging_builder')
    /\ (outcome = "running" /\ outcome' = "Ok")
       => \A x \in 1..4 :
              /\ Builders'[x].current = None
              /\ Builders[x].current = None => Builders'[x] = Builders[x]

(***************************************************************************)
(* C15: GroupBuilder::end is a no-op when nothing is active. `s off` or    *)
(* `s 0` (`mg off` or `mg 0`) issued while no smoothing (merging) group is *)
(* open, be it before any `s` (`mg`) statement or right after another off, *)
(* is accepted and leaves the table and the active key, None, as they      *)
(* were; and after every end() the active key is None.                     *)
(***************************************************************************)
C15_EndWithoutActiveKey == [][C15Step]_vars

\* An off before any start, and an off right after the off that closed key 1.
C15_Witness ==
    /\ consumed = << Stmt("s", << s_off >>), Stmt("s", << t1 >>), Face,
                     Stmt("s", << s_0 >>), Stmt("s", << s_off >>) >>
    /\ outcome = "running"
    /\ smoothing_builder.current = None
    /\ smoothing_builder.result[1].polygons = << Range(0, 1) >>

\* A step in which the closure returns an error value changes nothing else.
C16Step ==
    (outcome = "running" /\ outcome' \in ErrorKinds)
    => /\ Delivers
       /\ UNCHANGED << Lists, name, material_libraries, Builders >>

(***************************************************************************)
(* C16: a statement mutates the state or returns an error, never both.     *)
(* For every statement that yields an error value (wrong number or shape   *)
(* of arguments, numeric parse failure, unknown keyword) the element       *)
(* lists, the object name, the material libraries, the four tables and     *)
(* the four active keys are after the statement what they were before it.  *)
(***************************************************************************)
C16_ErrorMutatesNothing == [][C16Step]_vars

\* A face was stored; the next face fails on its second reference, after the
\* first one was parsed.
C16_Witness ==
    /\ consumed = << Face, Stmt("f", << t1, tx, t3 >>) >>
    /\ outcome = "ParseError"
    /\ Len(polygons) = 1

\* The indices a token names, as the numeric parse reads them.
SourceIndices(tok) ==
    LET nums == SelectSeq(Split(tok), NonEmpty)
    IN  [j \in 1..Len(nums) |-> ParseUsize(nums[j])[1]]

(***************************************************************************)
(* C17: for every accepted `f` statement each stored position, texcoord    *)
(* and normal index is a usize equal to the index of the source reference  *)
(* minus one, for every index the statement accepts, the smallest value    *)
(* the numeric parse accepts included.                                     *)
(***************************************************************************)
C17_StoredIsSourceMinusOne ==
    LET fs == SelectSeq(Accepted, IsFace)
    IN  /\ Len(polygons) = Len(fs)
        /\ \A i \in 1..Len(fs) : \A j \in 1..Len(fs[i].args) :
               LET src == SourceIndices(fs[i].args[j])
                   ref == polygons[i].refs[j]
               IN  /\ Len(ref) = Len(src)
                   /\ \A x \in 1..Len(src) :
                          /\ ref[x] \in 0..UsizeMax
                          /\ ref[x] = src[x] - 1

====
